---- MODULE Spec2Model ----
(***************************************************************************)
(* The ECDSA builtin of the Cairo VM (pkg/vm/builtins/ecdsa.go): the       *)
(* signature registry, the checked write, the recovery of the y            *)
(* coordinate and the export of the AIR private input.                     *)
(*                                                                         *)
(* The 252-bit STARK curve is scaled down to a curve of the same shape:    *)
(* y^2 = x^3 + Alpha*x + Beta over the prime field of FieldPrime elements, *)
(* Alpha = 1 as in pkg/utils, a group of prime order Order < FieldPrime    *)
(* (the STARK curve's scalar order is below its field prime too), and a    *)
(* generator (GenX, GenY).  All arithmetic is done as the library does it, *)
(* on these numbers.                                                       *)
(***************************************************************************)
EXTENDS Integers, Sequences, FiniteSets, TLC

\* ------------------------------------------------------------------------
\* Curve parameters (scaled down) and the builtin's constants
\* ------------------------------------------------------------------------
FieldPrime == 23
Order == 19
Alpha == 1
Beta == 19
GenX == 2
GenY == 11
cellsPerECDSA == 2

Field == 0..(FieldPrime - 1)

\* ------------------------------------------------------------------------
\* fp.Element arithmetic
\* ------------------------------------------------------------------------
Mul(a, b) == (a * b) % FieldPrime
Add(a, b) == (a + b) % FieldPrime
Sub(a, b) == (a + FieldPrime - b) % FieldPrime
Neg(a) == (FieldPrime - a) % FieldPrime

RECURSIVE Exp(_, _)
\* square-and-multiply, a^e in the base field
Exp(a, e) ==
    IF e = 0 THEN 1
    ELSE LET h == Exp(a, e \div 2)
             sq == Mul(h, h)
         IN  IF e % 2 = 1 THEN Mul(sq, a) ELSE sq

\* fp.Element.Inverse: 0 for 0, else a^(p-2) (tabulated once)
InverseTable == [a \in Field |-> IF a = 0 THEN 0 ELSE Exp(a, FieldPrime - 2)]
Inverse(a) == InverseTable[a]

\* nil, the result of Sqrt when there is no root
NoRoot == 0 - 1

\* fp.Element.Sqrt for a field prime that is 3 mod 4: the candidate
\* a^((p+1)/4) is the root when its square is a, and there is none otherwise.
Sqrt(a) ==
    LET y == Exp(a, (FieldPrime + 1) \div 4)
    IN  IF Mul(y, y) = a THEN y ELSE NoRoot

\* ------------------------------------------------------------------------
\* Curve points (G1Affine): a record [X, Y]; (0, 0) is the point at infinity
\* ------------------------------------------------------------------------
Infinity == [X |-> 0, Y |-> 0]
Generator == [X |-> GenX, Y |-> GenY]

\* y_squared = (x * x * x + ALPHA * x + BETA) % FIELD_PRIME
CurveRhs(x) == Add(Add(Mul(Mul(x, x), x), Mul(Alpha, x)), Beta)

IsOnCurve(pt) == pt = Infinity \/ Mul(pt.Y, pt.Y) = CurveRhs(pt.X)

PointAdd(p, q) ==
    IF p = Infinity THEN q
    ELSE IF q = Infinity THEN p
    ELSE IF p.X = q.X /\ Add(p.Y, q.Y) = 0 THEN Infinity
    ELSE LET l == IF p.X = q.X
                  THEN Mul(Add(Mul(3, Mul(p.X, p.X)), Alpha), Inverse(Mul(2, p.Y)))
                  ELSE Mul(Sub(q.Y, p.Y), Inverse(Sub(q.X, p.X)))
             x == Sub(Sub(Mul(l, l), p.X), q.X)
         IN  [X |-> x, Y |-> Sub(Mul(l, Sub(p.X, x)), p.Y)]

RECURSIVE ScalarMul(_, _)
\* double-and-add
ScalarMul(k, pt) ==
    IF k = 0 THEN Infinity
    ELSE LET h == ScalarMul(k \div 2, pt)
             d == PointAdd(h, h)
         IN  IF k % 2 = 1 THEN PointAdd(d, pt) ELSE d

\* the points of the curve, and their multiples (tabulated once)
CurvePoints ==
    {Infinity} \cup {pt \in [X : Field, Y : Field] : Mul(pt.Y, pt.Y) = CurveRhs(pt.X)}

ScalarMulTable == [pt \in CurvePoints |-> [k \in 0..(Order - 1) |-> ScalarMul(k, pt)]]

ScalarMultiplication(pt, k) ==
    IF pt \in CurvePoints /\ k \in 0..(Order - 1)
    THEN ScalarMulTable[pt][k]
    ELSE ScalarMul(k, pt)

\* G1Jac.JointScalarMultiplicationBase: u1*G + u2*A
JointScalarMultiplicationBase(a, u1, u2) ==
    PointAdd(ScalarMultiplication(Generator, u1), ScalarMultiplication(a, u2))

\* ------------------------------------------------------------------------
\* Byte encodings: Element.Bytes() and big.Int.SetBytes, fixed-width
\* big-endian (sizeFr digits of ByteBase, scaled down from 32 bytes of 256)
\* ------------------------------------------------------------------------
sizeFr == 3
ByteBase == 4
\* fr.Bits: the bit length of the scalar order
sizeFrBits == 5

RECURSIVE Pow(_, _)
Pow(b, e) == IF e = 0 THEN 1 ELSE b * Pow(b, e - 1)

\* fp.Element.Bytes: the canonical value, big-endian, sizeFr digits
Bytes(v) == [i \in 1..sizeFr |-> (v \div Pow(ByteBase, sizeFr - i)) % ByteBase]

RECURSIVE BigFromBytes(_)
\* big.Int.SetBytes: big-endian unsigned integer
BigFromBytes(b) ==
    IF Len(b) = 0 THEN 0
    ELSE BigFromBytes(SubSeq(b, 1, Len(b) - 1)) * ByteBase + b[Len(b)]

RECURSIVE BitLen(_)
BitLen(n) == IF n = 0 THEN 0 ELSE 1 + BitLen(n \div 2)

\* fmt.Sprintf("0x%x", n): lowercase hex without padding
HexDigits == <<"0", "1", "2", "3", "4", "5", "6", "7",
               "8", "9", "a", "b", "c", "d", "e", "f">>

RECURSIVE HexOf(_)
HexOf(n) ==
    IF n < 16 THEN HexDigits[n + 1]
    ELSE HexOf(n \div 16) \o HexDigits[(n % 16) + 1]

Hex(n) == "0x" \o HexOf(n)

\* ------------------------------------------------------------------------
\* Errors (nil, and the messages of the errors the builtin returns)
\* ------------------------------------------------------------------------
ErrNil == "nil"
ErrInvalidPublicKey == "invalid Public key"
ErrKeyNotOnCurve == "key is not on curve"
ErrMissingSignature == "signature is missing from ECDSA builtin"
ErrInvalidSignature == "signature is not valid"
ErrEncoding == "invalid signature encoding"
\* line 15
ECDSAName == "ecdsa"
\* line 91: the error of InferValue
ErrInferValue == "can't infer value"
\* the error of Segment.Read on an unknown cell: the builtin's error under
\* the builtin's name
ErrRead == ECDSAName \o ": " \o ErrInferValue
\* the error of MemoryValue.FieldElement on a value that is no felt
ErrNotFelt == "memory value is not a field element"

\* ------------------------------------------------------------------------
\* ecdsa.Signature and ecdsa.PublicKey.Verify of the curve library
\* ------------------------------------------------------------------------
\* big.Int.ModInverse(g, n): the inverse, or nil (NoInverse) when there is none
NoInverse == 0 - 1
ModInverse(g, n) ==
    IF \E w \in 1..(n - 1) : (g * w) % n = 1
    THEN CHOOSE w \in 1..(n - 1) : (g * w) % n = 1
    ELSE NoInverse

\* Signature.SetBytes: R and S are read from the two halves of the buffer;
\* each must be a non-zero scalar below the order of the scalar field.
SigSetBytes(buf) ==
    LET rb == SubSeq(buf, 1, sizeFr)
        sb == SubSeq(buf, sizeFr + 1, 2 * sizeFr)
        r == BigFromBytes(rb)
        s == BigFromBytes(sb)
    IN  IF Len(buf) < 2 * sizeFr \/ r = 0 \/ r >= Order \/ s = 0 \/ s >= Order
        THEN [err |-> ErrEncoding, sig |-> [R |-> Bytes(0), S |-> Bytes(0)]]
        ELSE [err |-> ErrNil, sig |-> [R |-> rb, S |-> sb]]

\* Signature.Bytes
SigBytes(sig) == sig.R \o sig.S

\* ecdsa.HashToInt: the leading sizeFr bytes as an integer, shifted right
\* by the bits in excess of the scalar field's bit length
HashToInt(hash) ==
    LET h == IF Len(hash) > sizeFr THEN SubSeq(hash, 1, sizeFr) ELSE hash
        ret == BigFromBytes(h)
        excess == BitLen(ret) - sizeFrBits
    IN  IF excess > 0 THEN ret \div Pow(2, excess) ELSE ret

\* PublicKey.Verify(sigBin, message, nil): r ?= (s^-1*m*G + s^-1*r*A).x mod Order
Verify(a, sigBin, message) ==
    LET dec == SigSetBytes(sigBin)
        r == BigFromBytes(dec.sig.R)
        s == BigFromBytes(dec.sig.S)
        sInv == ModInverse(s, Order)
        m == HashToInt(message)
        u1 == (m * sInv) % Order
        u2 == (r * sInv) % Order
        U == JointScalarMultiplicationBase(a, u1, u2)
        z == U.X % Order
    IN  IF dec.err # ErrNil
        THEN [valid |-> FALSE, err |-> dec.err]
        ELSE [valid |-> (z = r), err |-> ErrNil]

\* ------------------------------------------------------------------------
\* The memory segment of the builtin: cells are unknown, or hold a felt or
\* a memory address.  The field felt is the MemoryValue's Felt, which for
\* an address is the felt its stored words read as.
\* ------------------------------------------------------------------------
Unknown == [known |-> FALSE, isAddress |-> FALSE, felt |-> 0]
Known(v) == [known |-> TRUE, isAddress |-> FALSE, felt |-> v]
KnownAddress(a) == [known |-> TRUE, isAddress |-> TRUE, felt |-> a]

\* MemoryValue.FieldElement: the felt, or an error when the value is an
\* address
FieldElement(mv) ==
    IF mv.isAddress THEN [err |-> ErrNotFelt, felt |-> 0]
    ELSE [err |-> ErrNil, felt |-> mv.felt]

\* Segment.Peek: the cell, unknown beyond the end of the segment; never fails
Peek(seg, offset) == IF offset \in DOMAIN seg THEN seg[offset] ELSE Unknown

\* ECDSA.InferValue: the builtin deduces no cell
InferValue(seg, offset) == ErrInferValue

\* Segment.Read: the cell, or the builtin's InferValue error, under the
\* builtin's name, when it is unknown
Read(seg, offset) ==
    LET mv == Peek(seg, offset)
    IN  IF mv.known THEN [err |-> ErrNil, value |-> mv]
        ELSE [err |-> ECDSAName \o ": " \o InferValue(seg, offset), value |-> Unknown]

\* ------------------------------------------------------------------------
\* recoverY: the y and -y of x, or an error when x is on no point
\* ------------------------------------------------------------------------
\* variant of recoverY: the second candidate is not negated
recoverYNoNeg(x) ==
    LET ax == Mul(Alpha, x)
        x2 == Add(Add(Mul(Mul(x, x), x), ax), Beta)
        y == Sqrt(x2)
    IN  IF y = NoRoot
        THEN [err |-> ErrInvalidPublicKey, posY |-> 0, negY |-> 0]
        ELSE [err |-> ErrNil, posY |-> y, negY |-> y]

\* variant of recoverY: x is squared, not cubed
recoverYSquare(x) ==
    LET ax == Mul(Alpha, x)
        x2 == Add(Add(Mul(x, x), ax), Beta)
        y == Sqrt(x2)
    IN  IF y = NoRoot
        THEN [err |-> ErrInvalidPublicKey, posY |-> 0, negY |-> 0]
        ELSE [err |-> ErrNil, posY |-> y, negY |-> Neg(y)]

\* variant of recoverY: the term Alpha*x is left out
recoverYNoAlpha(x) ==
    LET x2 == Add(Mul(Mul(x, x), x), Beta)
        y == Sqrt(x2)
    IN  IF y = NoRoot
        THEN [err |-> ErrInvalidPublicKey, posY |-> 0, negY |-> 0]
        ELSE [err |-> ErrNil, posY |-> y, negY |-> Neg(y)]

recoverY(x) ==
    LET ax == Mul(Alpha, x)
        x2 == Add(Add(Mul(Mul(x, x), x), ax), Beta)
        y == Sqrt(x2)
    IN  IF y = NoRoot
        THEN [err |-> ErrInvalidPublicKey, posY |-> 0, negY |-> 0]
        ELSE [err |-> ErrNil, posY |-> y, negY |-> Neg(y)]

\* ------------------------------------------------------------------------
\* ECDSA.CheckWrite.  The value returned is the error, with the line of the
\* return statement taken, the number of Verify calls made and the two
\* candidates recoverY returned (0 when it was not reached).
\* ------------------------------------------------------------------------
Return(err, line, verifies, posY, negY) ==
    [err |-> err, line |-> line, verifies |-> verifies, posY |-> posY, negY |-> negY]

\* variant of PubOffset: the offset written, not aligned to its instance
PubOffsetUnaligned(offset) == offset

\* lines 29-30: the offset of the instance's public key cell
PubOffset(offset) == offset - (offset % cellsPerECDSA)

\* variant of AwaitingBoth: waits only while both cells are unknown
AwaitingBothAnd(pub, msg) == ~msg.known /\ ~pub.known

\* line 37: both must be known to check the signature
AwaitingBoth(pub, msg) == ~msg.known \/ ~pub.known

\* variant of VerifyEither: the second attempt uses the positive y again
VerifyEitherPosTwice(pubX, posY, negY, sig, msgBytes) ==
    LET first == Verify([X |-> pubX, Y |-> posY], SigBytes(sig), msgBytes)
    IN  IF first.err # ErrNil THEN Return(first.err, 72, 1, posY, negY)
        ELSE IF first.valid THEN Return(ErrNil, 87, 1, posY, negY)
        ELSE
        LET second == Verify([X |-> pubX, Y |-> posY], SigBytes(sig), msgBytes)
        IN  IF second.err # ErrNil THEN Return(second.err, 81, 2, posY, negY)
            ELSE IF ~second.valid THEN Return(ErrInvalidSignature, 84, 2, posY, negY)
            ELSE Return(ErrNil, 87, 2, posY, negY)

\* variant of VerifyEither: the verdict of the second attempt is dropped
VerifyEitherUnchecked(pubX, posY, negY, sig, msgBytes) ==
    LET first == Verify([X |-> pubX, Y |-> posY], SigBytes(sig), msgBytes)
    IN  IF first.err # ErrNil THEN Return(first.err, 72, 1, posY, negY)
        ELSE IF first.valid THEN Return(ErrNil, 87, 1, posY, negY)
        ELSE
        LET second == Verify([X |-> pubX, Y |-> negY], SigBytes(sig), msgBytes)
        IN  IF second.err # ErrNil THEN Return(second.err, 81, 2, posY, negY)
            ELSE Return(ErrNil, 87, 2, posY, negY)

\* lines 69-87: verify with the positive y, and with the negative y when
\* that fails
VerifyEither(pubX, posY, negY, sig, msgBytes) ==
    LET first == Verify([X |-> pubX, Y |-> posY], SigBytes(sig), msgBytes)
    IN  IF first.err # ErrNil THEN Return(first.err, 72, 1, posY, negY)
        ELSE IF first.valid THEN Return(ErrNil, 87, 1, posY, negY)
        ELSE
        LET second == Verify([X |-> pubX, Y |-> negY], SigBytes(sig), msgBytes)
        IN  IF second.err # ErrNil THEN Return(second.err, 81, 2, posY, negY)
            ELSE IF ~second.valid THEN Return(ErrInvalidSignature, 84, 2, posY, negY)
            ELSE Return(ErrNil, 87, 2, posY, negY)

\* variant of CheckWrite: only the write of the message cell checks the
\* instance
CheckWriteMsgTriggered(seg, sigs, offset) ==
    LET pubOffset == PubOffset(offset)
        msgOffset == pubOffset + 1
        pub == Peek(seg, pubOffset)
        msg == Peek(seg, msgOffset)
    IN  IF AwaitingBoth(pub, msg) \/ offset # msgOffset THEN Return(ErrNil, 38, 0, 0, 0)
        ELSE
        LET pubDec == FieldElement(pub)
            msgDec == FieldElement(msg)
            pubX == pubDec.felt
            msgField == msgDec.felt
            rec == recoverY(pubX)
            posY == rec.posY
            negY == rec.negY
            key == [X |-> pubX, Y |-> posY]
        IN  IF pubDec.err # ErrNil THEN Return(pubDec.err, 43, 0, 0, 0)
            ELSE IF msgDec.err # ErrNil THEN Return(msgDec.err, 48, 0, 0, 0)
            ELSE IF rec.err # ErrNil THEN Return(rec.err, 54, 0, posY, negY)
            ELSE IF ~IsOnCurve(key) THEN Return(ErrKeyNotOnCurve, 60, 0, posY, negY)
            ELSE IF pubOffset \notin DOMAIN sigs
                 THEN Return(ErrMissingSignature, 66, 0, posY, negY)
            ELSE VerifyEither(pubX, posY, negY, sigs[pubOffset], Bytes(msgField))

\* variant of CheckWrite: the registry is looked up before y is recovered
CheckWriteLookupFirst(seg, sigs, offset) ==
    LET pubOffset == PubOffset(offset)
        msgOffset == pubOffset + 1
        pub == Peek(seg, pubOffset)
        msg == Peek(seg, msgOffset)
    IN  IF AwaitingBoth(pub, msg) THEN Return(ErrNil, 38, 0, 0, 0)
        ELSE IF pubOffset \notin DOMAIN sigs
             THEN Return(ErrMissingSignature, 66, 0, 0, 0)
        ELSE
        LET pubDec == FieldElement(pub)
            msgDec == FieldElement(msg)
            pubX == pubDec.felt
            msgField == msgDec.felt
            rec == recoverY(pubX)
            posY == rec.posY
            negY == rec.negY
            key == [X |-> pubX, Y |-> posY]
        IN  IF pubDec.err # ErrNil THEN Return(pubDec.err, 43, 0, 0, 0)
            ELSE IF msgDec.err # ErrNil THEN Return(msgDec.err, 48, 0, 0, 0)
            ELSE IF rec.err # ErrNil THEN Return(rec.err, 54, 0, posY, negY)
            ELSE IF ~IsOnCurve(key) THEN Return(ErrKeyNotOnCurve, 60, 0, posY, negY)
            ELSE VerifyEither(pubX, posY, negY, sigs[pubOffset], Bytes(msgField))

\* variant of CheckWrite: a registered instance is checked against the
\* signature under the highest address of the registry
CheckWriteLastEntry(seg, sigs, offset) ==
    LET pubOffset == PubOffset(offset)
        msgOffset == pubOffset + 1
        pub == Peek(seg, pubOffset)
        msg == Peek(seg, msgOffset)
    IN  IF AwaitingBoth(pub, msg) THEN Return(ErrNil, 38, 0, 0, 0)
        ELSE
        LET pubDec == FieldElement(pub)
            msgDec == FieldElement(msg)
            pubX == pubDec.felt
            msgField == msgDec.felt
            rec == recoverY(pubX)
            posY == rec.posY
            negY == rec.negY
            key == [X |-> pubX, Y |-> posY]
        IN  IF pubDec.err # ErrNil THEN Return(pubDec.err, 43, 0, 0, 0)
            ELSE IF msgDec.err # ErrNil THEN Return(msgDec.err, 48, 0, 0, 0)
            ELSE IF rec.err # ErrNil THEN Return(rec.err, 54, 0, posY, negY)
            ELSE IF ~IsOnCurve(key) THEN Return(ErrKeyNotOnCurve, 60, 0, posY, negY)
            ELSE IF pubOffset \notin DOMAIN sigs
                 THEN Return(ErrMissingSignature, 66, 0, posY, negY)
            ELSE VerifyEither(pubX, posY, negY,
                              sigs[CHOOSE b \in DOMAIN sigs : \A c \in DOMAIN sigs : c <= b],
                              Bytes(msgField))

CheckWrite(seg, sigs, offset) ==
    LET pubOffset == PubOffset(offset)
        msgOffset == pubOffset + 1
        pub == Peek(seg, pubOffset)
        msg == Peek(seg, msgOffset)
    IN  IF AwaitingBoth(pub, msg) THEN Return(ErrNil, 38, 0, 0, 0)
        ELSE
        LET pubDec == FieldElement(pub)
            msgDec == FieldElement(msg)
            pubX == pubDec.felt
            msgField == msgDec.felt
            rec == recoverY(pubX)
            posY == rec.posY
            negY == rec.negY
            key == [X |-> pubX, Y |-> posY]
        IN  IF pubDec.err # ErrNil THEN Return(pubDec.err, 43, 0, 0, 0)
            ELSE IF msgDec.err # ErrNil THEN Return(msgDec.err, 48, 0, 0, 0)
            ELSE IF rec.err # ErrNil THEN Return(rec.err, 54, 0, posY, negY)
            ELSE IF ~IsOnCurve(key) THEN Return(ErrKeyNotOnCurve, 60, 0, posY, negY)
            ELSE IF pubOffset \notin DOMAIN sigs
                 THEN Return(ErrMissingSignature, 66, 0, posY, negY)
            ELSE VerifyEither(pubX, posY, negY, sigs[pubOffset], Bytes(msgField))

\* ------------------------------------------------------------------------
\* ECDSA.AddSignature: the error and the registry after the call
\* ------------------------------------------------------------------------
\* variant of AddSignature: the map is made anew on every call
AddSignatureFresh(sigs, pubOffset, r, s) ==
    LET bytes == Bytes(r) \o Bytes(s)
        dec == SigSetBytes(bytes)
    IN  IF dec.err # ErrNil THEN [err |-> dec.err, sigs |-> sigs]
        ELSE [err |-> ErrNil, sigs |-> (pubOffset :> dec.sig)]

\* variant of AddSignature: the entry is stored before the bytes are decoded
AddSignatureStoreFirst(sigs, pubOffset, r, s) ==
    LET bytes == Bytes(r) \o Bytes(s)
        dec == SigSetBytes(bytes)
        stored == (pubOffset :> [R |-> Bytes(r), S |-> Bytes(s)]) @@ sigs
    IN  IF dec.err # ErrNil THEN [err |-> dec.err, sigs |-> stored]
        ELSE [err |-> ErrNil, sigs |-> stored]

\* variant of AddSignature: an entry already present is kept
AddSignatureKeepFirst(sigs, pubOffset, r, s) ==
    LET bytes == Bytes(r) \o Bytes(s)
        dec == SigSetBytes(bytes)
    IN  IF dec.err # ErrNil THEN [err |-> dec.err, sigs |-> sigs]
        ELSE [err |-> ErrNil, sigs |-> sigs @@ (pubOffset :> dec.sig)]

AddSignature(sigs, pubOffset, r, s) ==
    LET bytes == Bytes(r) \o Bytes(s)
        dec == SigSetBytes(bytes)
    IN  IF dec.err # ErrNil THEN [err |-> dec.err, sigs |-> sigs]
        ELSE [err |-> ErrNil, sigs |-> (pubOffset :> dec.sig) @@ sigs]

\* ------------------------------------------------------------------------
\* ECDSA.GetAirPrivateInput: the records and the error, for the order in
\* which the iteration over the map visits the registry's entries
\* ------------------------------------------------------------------------
\* variant of frModulusBig: the prime of the base field
frModulusBigBaseField == FieldPrime

\* line 203: the order of the scalar field
frModulusBig == Order

\* variant of AirPrivateBuiltinECDSA: r and w are taken from the wrong halves
AirPrivateBuiltinECDSASwapped(seg, addrOffset, signature) ==
    LET idx == addrOffset \div cellsPerECDSA
        pubKey == Read(seg, addrOffset).value
        msg == Read(seg, addrOffset + 1).value
        rBig == BigFromBytes(signature.S)
        sBig == BigFromBytes(signature.R)
        wBig == ModInverse(sBig, frModulusBig)
    IN  [Index |-> idx, PubKey |-> Hex(pubKey.felt), Msg |-> Hex(msg.felt),
         SignatureInput |-> [R |-> Hex(rBig),
                             W |-> IF wBig = NoInverse THEN "0x<nil>" ELSE Hex(wBig)]]


AirPrivateBuiltinECDSA(seg, addrOffset, signature) ==
    LET idx == addrOffset \div cellsPerECDSA
        pubKey == Read(seg, addrOffset).value
        msg == Read(seg, addrOffset + 1).value
        rBig == BigFromBytes(signature.R)
        sBig == BigFromBytes(signature.S)
        wBig == ModInverse(sBig, frModulusBig)
    IN  [Index |-> idx, PubKey |-> Hex(pubKey.felt), Msg |-> Hex(msg.felt),
         SignatureInput |-> [R |-> Hex(rBig),
                             W |-> IF wBig = NoInverse THEN "0x<nil>" ELSE Hex(wBig)]]

\* variant of ReadCells: the error of the second read is dropped
ReadCellsPubKeyOnly(seg, addrOffset) ==
    LET pubKey == Read(seg, addrOffset)
        msg == Read(seg, addrOffset + 1)
    IN  IF pubKey.err # ErrNil THEN [err |-> pubKey.err, line |-> 187]
        ELSE [err |-> ErrNil, line |-> 0]

\* lines 185-192: the two forcing reads of an entry; the error of the
\* first that fails is returned as it is
ReadCells(seg, addrOffset) ==
    LET pubKey == Read(seg, addrOffset)
        msg == Read(seg, addrOffset + 1)
    IN  IF pubKey.err # ErrNil THEN [err |-> pubKey.err, line |-> 187]
        ELSE IF msg.err # ErrNil THEN [err |-> msg.err, line |-> 191]
        ELSE [err |-> ErrNil, line |-> 0]

RECURSIVE GetAirPrivateInputFrom(_, _, _, _)
GetAirPrivateInputFrom(seg, sigs, order, values) ==
    IF Len(order) = 0 THEN [values |-> values, err |-> ErrNil, line |-> 212]
    ELSE LET addrOffset == Head(order)
             cells == ReadCells(seg, addrOffset)
         IN  IF cells.err # ErrNil
             THEN [values |-> values, err |-> cells.err, line |-> cells.line]
             ELSE GetAirPrivateInputFrom(seg, sigs, Tail(order),
                      Append(values, AirPrivateBuiltinECDSA(seg, addrOffset, sigs[addrOffset])))

GetAirPrivateInput(seg, sigs, order) == GetAirPrivateInputFrom(seg, sigs, order, <<>>)

\* the orders in which a map with these keys can be iterated
IterationOrders(keys) ==
    {o \in [1..Cardinality(keys) -> keys] : \A i, j \in DOMAIN o : i # j => o[i] # o[j]}

\* ------------------------------------------------------------------------
\* Bounds of the model and the inputs the operations are called with
\* ------------------------------------------------------------------------
\* cells of the builtin's segment that the run may write
SegmentSize == 3
\* entries the registry may hold
MaxSigs == 2

Offsets == 0..(SegmentSize - 1)

\* felts the VM writes: 1 is the x of no point of the curve, 2 is the x of two
FeltInputs == {1, 2}

\* addresses the VM writes: one whose Felt reads as the x of two points
AddressInputs == {GenX}

\* the cells the VM writes an address into: those of the first instance
AddressOffsets == 0..(cellsPerECDSA - 1)

\* (r, s) the hint passes: two signatures (scalars that do not decode are
\* passed under SpecRegister)
SigInputs == {<<1, 3>>, <<2, 1>>}

\* ------------------------------------------------------------------------
\* State
\* ------------------------------------------------------------------------
VARIABLES
    segment,      \* the builtin's memory segment: offset -> cell
    Signatures,   \* ECDSA.Signatures: pubOffset -> Signature
    stopPointer,  \* ECDSA.stopPointer
    call,         \* the last call made: [op, offset, r, s]
    result,       \* what it returned (see Return)
    values,       \* the records the last GetAirPrivateInput returned
    verified,     \* history: pubOffset -> the signature a CheckWrite verified
    failed        \* history: a CheckWrite has returned an error

vars == <<segment, Signatures, stopPointer, call, result, values, verified, failed>>

Call(op, offset, r, s) == [op |-> op, offset |-> offset, r |-> r, s |-> s]

NoSignatures == [b \in {} |-> [R |-> Bytes(0), S |-> Bytes(0)]]

Init ==
    /\ segment = [o \in Offsets |-> Unknown]
    /\ Signatures = NoSignatures
    /\ stopPointer = 0
    /\ call = Call("new", 0, 0, 0)
    /\ result = Return(ErrNil, 0, 0, 0, 0)
    /\ values = <<>>
    /\ verified = NoSignatures
    /\ failed = FALSE

\* ------------------------------------------------------------------------
\* Operations
\* ------------------------------------------------------------------------
\* the instance base of an offset
BaseOf(offset) == offset - (offset % cellsPerECDSA)

\* Segment.Write: the VM writes a value into a cell (once: a known cell can
\* only be given its value again), and the builtin's CheckWrite runs on it.
Write(offset, mv) ==
    /\ ~segment[offset].known \/ segment[offset] = mv
    /\ segment' = [segment EXCEPT ![offset] = mv]
    /\ result' = CheckWrite(segment', Signatures, offset)
    /\ call' = Call("CheckWrite", offset, 0, 0)
    /\ verified' = IF result'.line = 87
                   THEN (BaseOf(offset) :> Signatures[BaseOf(offset)]) @@ verified
                   ELSE verified
    /\ failed' = (failed \/ result'.err # ErrNil)
    /\ values' = <<>>
    /\ UNCHANGED <<Signatures, stopPointer>>

\* the hint: ecdsa_builtin.add_signature(ids.ecdsa_ptr.address_, (r, s))
Register(pubOffset, r, s) ==
    LET got == AddSignature(Signatures, pubOffset, r, s)
    IN  /\ Cardinality(DOMAIN got.sigs) <= MaxSigs
        /\ Signatures' = got.sigs
        /\ result' = Return(got.err, IF got.err = ErrNil THEN 139 ELSE 135, 0, 0, 0)
        /\ call' = Call("AddSignature", pubOffset, r, s)
        /\ values' = <<>>
        /\ UNCHANGED <<segment, stopPointer, verified, failed>>

\* variant of Export: the registry is emptied by the export
ExportClearing ==
    \E order \in IterationOrders(DOMAIN Signatures) :
        LET got == GetAirPrivateInput(segment, Signatures, order)
        IN  /\ values' = got.values
            /\ result' = Return(got.err, got.line, 0, 0, 0)
            /\ call' = Call("GetAirPrivateInput", 0, 0, 0)
            /\ Signatures' = NoSignatures
            /\ UNCHANGED <<segment, stopPointer, verified, failed>>

\* the proof pipeline exports the AIR private input
Export ==
    \E order \in IterationOrders(DOMAIN Signatures) :
        LET got == GetAirPrivateInput(segment, Signatures, order)
        IN  /\ values' = got.values
            /\ result' = Return(got.err, got.line, 0, 0, 0)
            /\ call' = Call("GetAirPrivateInput", 0, 0, 0)
            /\ UNCHANGED <<segment, Signatures, stopPointer, verified, failed>>

\* ECDSA.SetStopPointer, by the VM when the run has ended
SetStopPointer(sp) ==
    /\ stopPointer' = sp
    /\ result' = Return(ErrNil, 224, 0, 0, 0)
    /\ call' = Call("SetStopPointer", sp, 0, 0)
    /\ values' = <<>>
    /\ UNCHANGED <<segment, Signatures, verified, failed>>

Next ==
    \/ \E offset \in Offsets, v \in FeltInputs : Write(offset, Known(v))
    \/ \E offset \in AddressOffsets, a \in AddressInputs : Write(offset, KnownAddress(a))
    \/ \E pubOffset \in Offsets, rs \in SigInputs : Register(pubOffset, rs[1], rs[2])
    \/ Export
    \/ SetStopPointer(SegmentSize)

Spec == Init /\ [][Next]_vars

\* ------------------------------------------------------------------------
\* One instance with every value: the cells of instance 0 unknown or any
\* felt, its registry entry absent or any signature AddSignature accepts.
\* CheckWrite runs again when the VM writes a cell's value again.
\* ------------------------------------------------------------------------
CellValues == {Unknown} \cup {Known(v) : v \in Field} \cup {KnownAddress(a) : a \in AddressInputs}

InitValues ==
    /\ segment \in {[o \in Offsets |-> IF o = 0 THEN a ELSE IF o = 1 THEN b ELSE Unknown] :
                       a \in CellValues, b \in CellValues}
    /\ Signatures \in {AddSignature(NoSignatures, 0, r, s).sigs : r \in Field, s \in Field}
    /\ stopPointer = 0
    /\ call = Call("new", 0, 0, 0)
    /\ result = Return(ErrNil, 0, 0, 0, 0)
    /\ values = <<>>
    /\ verified = NoSignatures
    /\ failed = FALSE

NextValues ==
    \E offset \in Offsets : segment[offset].known /\ Write(offset, segment[offset])

SpecValues == InitValues /\ [][NextValues]_vars

\* ------------------------------------------------------------------------
\* One registered instance with every signature: the public key any felt,
\* the message one of the inputs, the entry what AddSignature makes of any
\* (r, s); the private input is exported.
\* ------------------------------------------------------------------------
InitExport ==
    /\ segment \in {[o \in Offsets |-> IF o = 0 THEN Known(x) ELSE IF o = 1 THEN Known(m) ELSE Unknown] :
                       x \in Field, m \in FeltInputs}
    /\ Signatures \in {AddSignature(NoSignatures, 0, r, s).sigs : r \in Field, s \in Field}
    /\ stopPointer = 0
    /\ call = Call("new", 0, 0, 0)
    /\ result = Return(ErrNil, 0, 0, 0, 0)
    /\ values = <<>>
    /\ verified = NoSignatures
    /\ failed = FALSE

NextExport == Export

SpecExport == InitExport /\ [][NextExport]_vars

\* ------------------------------------------------------------------------
\* The hint with every kind of scalar: r and s zero, small, the order
\* itself and the largest felt, registered for two
\* instances; the cells of instance 0 are written with a public key and a
\* message.
\* ------------------------------------------------------------------------
ScalarInputs == {0, 1, 3, Order, FieldPrime - 1}

HintOffsets == {0, cellsPerECDSA}

NextRegister ==
    \/ \E pubOffset \in HintOffsets, r \in ScalarInputs, s \in ScalarInputs :
          Register(pubOffset, r, s)
    \/ \E offset \in {0, 1} : Write(offset, Known(IF offset = 0 THEN GenX ELSE 1))

SpecRegister == Init /\ [][NextRegister]_vars

\* ------------------------------------------------------------------------
\* Properties
\* ------------------------------------------------------------------------
LastCheckWrite == call.op = "CheckWrite"
LastExport == call.op = "GetAirPrivateInput"
LastAdd == call.op = "AddSignature"

\* the instance the last call's offset falls in
LastBase == BaseOf(call.offset)

\* both cells of the instance at base are known
Complete(base) == Peek(segment, base).known /\ Peek(segment, base + 1).known

\* both cells of the instance at base hold field elements
HoldsFelts(base) ==
    /\ Complete(base)
    /\ ~Peek(segment, base).isAddress
    /\ ~Peek(segment, base + 1).isAddress

\* the y with y^2 = x^3 + Alpha*x + Beta, by the curve equation itself
Candidates(x) ==
    {y \in Field : (y * y) % FieldPrime = (x * x * x + Alpha * x + Beta) % FieldPrime}

\* the signature registered under base verifies the instance's message
\* under the public key (x, y)
VerifiesUnder(base, y) ==
    Verify([X |-> segment[base].felt, Y |-> y], SigBytes(Signatures[base]),
           Bytes(segment[base + 1].felt)).valid

\* C1: a CheckWrite on an instance with a cell still unknown returns nil
\* from the guard, without recovering a key or verifying anything, whatever
\* the registry holds.
C1_AwaitingIsNoOp ==
    (LastCheckWrite /\ ~Complete(LastBase))
        => (result.err = ErrNil /\ result.line = 38 /\ result.verifies = 0)

\* the public key cell was written, the message is unknown, and the
\* registry already holds the instance's signature
C1_Witness ==
    /\ LastCheckWrite
    /\ call.offset = LastBase
    /\ segment[LastBase].known
    /\ ~Peek(segment, LastBase + 1).known
    /\ LastBase \in DOMAIN Signatures
    /\ result.err = ErrNil

\* C2: when the registered signature verifies under exactly one of the two
\* y of the public key x, the CheckWrite on the complete instance (both
\* cells felts) succeeds.
C2_OneCandidateSuffices ==
    (/\ LastCheckWrite
     /\ HoldsFelts(LastBase)
     /\ LastBase \in DOMAIN Signatures
     /\ Cardinality({y \in Candidates(segment[LastBase].felt) : VerifiesUnder(LastBase, y)}) = 1)
        => result.err = ErrNil

\* the positive y failed and the negative y verified
C2_Witness ==
    /\ LastCheckWrite
    /\ HoldsFelts(LastBase)
    /\ LastBase \in DOMAIN Signatures
    /\ Cardinality({y \in Candidates(segment[LastBase].felt) : VerifiesUnder(LastBase, y)}) = 1
    /\ result.verifies = 2
    /\ result.err = ErrNil

\* C3 as stated: a complete instance without a registry entry fails with
\* the missing-signature error, whatever its two cells hold.
C3_MissingForEveryValue ==
    (LastCheckWrite /\ Complete(LastBase) /\ LastBase \notin DOMAIN Signatures)
        => result.err = ErrMissingSignature

\* C3: a complete instance without a registry entry fails with the
\* missing-signature error when its public key cell is the x of a point,
\* with the invalid-public-key error when it is the x of none, and with
\* the error of FieldElement when one of its cells holds no felt.
C3_MissingAfterRecovery ==
    (LastCheckWrite /\ Complete(LastBase) /\ LastBase \notin DOMAIN Signatures)
        => result.err = IF ~HoldsFelts(LastBase) THEN ErrNotFelt
                        ELSE IF Candidates(segment[LastBase].felt) # {}
                        THEN ErrMissingSignature
                        ELSE ErrInvalidPublicKey

\* a valid public key and a message are known, the registry holds an entry
\* for another address only
C3_Witness ==
    /\ LastCheckWrite
    /\ Complete(LastBase)
    /\ LastBase \notin DOMAIN Signatures
    /\ DOMAIN Signatures # {}
    /\ result.err = ErrMissingSignature

\* C4: when the registered signature verifies under neither y of the
\* public key x, the CheckWrite on the complete instance (both cells
\* felts) fails with the invalid-signature error.
C4_NeitherCandidateFails ==
    (/\ LastCheckWrite
     /\ HoldsFelts(LastBase)
     /\ LastBase \in DOMAIN Signatures
     /\ Candidates(segment[LastBase].felt) # {}
     /\ \A y \in Candidates(segment[LastBase].felt) : ~VerifiesUnder(LastBase, y))
        => result.err = ErrInvalidSignature

\* both attempts were made and both failed
C4_Witness ==
    /\ LastCheckWrite
    /\ HoldsFelts(LastBase)
    /\ LastBase \in DOMAIN Signatures
    /\ Candidates(segment[LastBase].felt) # {}
    /\ \A y \in Candidates(segment[LastBase].felt) : ~VerifiesUnder(LastBase, y)
    /\ result.verifies = 2
    /\ result.err = ErrInvalidSignature

\* the record's r and w are derived from the signature sig: r rendered in
\* hex, and w the hex of the inverse of s modulo the scalar order
DerivedFrom(rec, sig) ==
    /\ rec.SignatureInput.R = Hex(BigFromBytes(sig.R))
    /\ \E w \in 0..(Order - 1) :
        /\ (BigFromBytes(sig.S) * w) % Order = 1
        /\ rec.SignatureInput.W = Hex(w)

\* C5 as stated: every exported record belongs to an instance that a
\* CheckWrite verified, and its r and w come from the signature verified
\* (even when no CheckWrite of the run failed and every registered address
\* is even).
C5_RecordsAreVerified ==
    (LastExport /\ ~failed /\ \A b \in DOMAIN Signatures : b % 2 = 0) =>
        \A i \in DOMAIN values :
            \E b \in DOMAIN verified :
                values[i].Index = b \div 2 /\ DerivedFrom(values[i], verified[b])

\* C5: every exported record belongs to a registry entry whose two cells
\* are known, and its r and w come from the signature registered under
\* that address when the export runs.  When no CheckWrite of the run has
\* failed and every registered address is even, the record's instance is
\* one a CheckWrite verified, under a signature that verifies it, and the
\* record's r and w come from that very signature unless the entry has
\* been replaced by another signature since.
C5_RecordsAreRegistered ==
    LastExport =>
        \A i \in DOMAIN values :
            \E b \in DOMAIN Signatures :
                /\ Complete(b)
                /\ values[i].Index = b \div 2
                /\ values[i].PubKey = Hex(segment[b].felt)
                /\ values[i].Msg = Hex(segment[b + 1].felt)
                /\ DerivedFrom(values[i], Signatures[b])
                /\ (~failed /\ \A c \in DOMAIN Signatures : c % 2 = 0) =>
                      /\ b \in DOMAIN verified
                      /\ \E y \in Candidates(segment[b].felt) :
                            Verify([X |-> segment[b].felt, Y |-> y], SigBytes(verified[b]),
                                   Bytes(segment[b + 1].felt)).valid
                      /\ DerivedFrom(values[i], verified[b]) \/ Signatures[b] # verified[b]

\* an export, in a run without a failed CheckWrite and with even addresses
\* only, that returned the record of an instance verified under the
\* signature still registered
C5_Witness ==
    /\ LastExport
    /\ result.err = ErrNil
    /\ ~failed
    /\ \A c \in DOMAIN Signatures : c % 2 = 0
    /\ \E b \in DOMAIN verified :
        /\ b \in DOMAIN Signatures
        /\ verified[b] = Signatures[b]
        /\ \E i \in DOMAIN values : values[i].Index = b \div 2 /\ DerivedFrom(values[i], verified[b])

\* C6: when both cells of every registry entry are known, the export
\* returns one record per entry, with index base/2 and the two cells as
\* pubkey and msg, and no two records have the same index.
C6_OneRecordPerEntry ==
    (LastExport /\ \A b \in DOMAIN Signatures : Complete(b)) =>
        /\ Len(values) = Cardinality(DOMAIN Signatures)
        /\ \A b \in DOMAIN Signatures :
            \E i \in DOMAIN values :
                /\ values[i].Index = b \div 2
                /\ values[i].PubKey = Hex(segment[b].felt)
                /\ values[i].Msg = Hex(segment[b + 1].felt)
        /\ \A i, j \in DOMAIN values : i # j => values[i].Index # values[j].Index

\* C7: the w of every exported record is the inverse of the registered s
\* modulo the order of the scalar field.
C7_WInvertsS ==
    LastExport =>
        /\ Len(values) = Cardinality(DOMAIN Signatures)
        /\ \A i \in DOMAIN values :
            \E b \in DOMAIN Signatures :
                /\ values[i].Index = b \div 2
                /\ \E w \in 0..(Order - 1) :
                    /\ (BigFromBytes(Signatures[b].S) * w) % Order = 1
                    /\ values[i].SignatureInput.W = Hex(w)

\* a record was exported for an s that is not its own inverse
C7_Witness ==
    /\ LastExport
    /\ Len(values) = 1
    /\ BigFromBytes(Signatures[0].S) = Order - 2
    /\ values[1].SignatureInput.W = Hex((Order - 1) \div 2)

\* C8: for the x of a point, recoverY succeeds and returns the two y of
\* the curve equation.
C8_RecoversBothRoots ==
    (LastCheckWrite /\ HoldsFelts(LastBase) /\ Candidates(segment[LastBase].felt) # {})
        => /\ result.err # ErrInvalidPublicKey
           /\ result.line # 54
           /\ {result.posY, result.negY} = Candidates(segment[LastBase].felt)

\* two distinct candidates were recovered
C8_Witness ==
    /\ LastCheckWrite
    /\ HoldsFelts(LastBase)
    /\ Candidates(segment[LastBase].felt) # {}
    /\ result.posY # result.negY
    /\ {result.posY, result.negY} = Candidates(segment[LastBase].felt)

\* C9: for an x on no point, recoverY fails with the invalid-public-key
\* error and returns zero for both candidates.
C9_NoRootIsInvalidKey ==
    (LastCheckWrite /\ HoldsFelts(LastBase) /\ Candidates(segment[LastBase].felt) = {})
        => /\ result.err = ErrInvalidPublicKey
           /\ result.line = 54
           /\ result.posY = 0
           /\ result.negY = 0

\* the key is rejected although the registry holds a signature for it
C9_Witness ==
    /\ LastCheckWrite
    /\ HoldsFelts(LastBase)
    /\ Candidates(segment[LastBase].felt) = {}
    /\ LastBase \in DOMAIN Signatures
    /\ result.err = ErrInvalidPublicKey

\* C10 as stated: once registered, the signature under an address is never
\* changed or removed by any later call.
C10_EntriesNeverChange ==
    [][\A b \in DOMAIN Signatures :
          b \in DOMAIN Signatures' /\ Signatures'[b] = Signatures[b]]_vars

\* C10: no call removes a registry entry, CheckWrite and the export change
\* none, and an entry changes only by a successful AddSignature for its own
\* address, which replaces it with the signature passed.
C10_OnlyAddSignatureReplaces ==
    [][/\ \A b \in DOMAIN Signatures : b \in DOMAIN Signatures'
       /\ call'.op # "AddSignature" => Signatures' = Signatures
       /\ \A b \in DOMAIN Signatures :
            Signatures'[b] # Signatures[b] =>
                /\ call'.op = "AddSignature"
                /\ call'.offset = b
                /\ result'.err = ErrNil
                /\ Signatures'[b] = [R |-> Bytes(call'.r), S |-> Bytes(call'.s)]]_vars

\* an instance was verified and its entry then replaced by another signature
C10_Witness ==
    /\ LastAdd
    /\ result.err = ErrNil
    /\ call.offset \in DOMAIN verified
    /\ verified[call.offset] # Signatures[call.offset]

\* C11: every address the builtin uses as an instance base is even: every
\* key of the registry, the base a CheckWrite looks up, and so every base
\* the export reads, which makes base/2 name the cells base and base+1 of
\* one instance only.
C11_BasesAreEven ==
    /\ \A b \in DOMAIN Signatures : b % cellsPerECDSA = 0
    /\ LastCheckWrite => LastBase % cellsPerECDSA = 0
    /\ LastExport =>
          \A i \in DOMAIN values :
              /\ values[i].PubKey = Hex(segment[cellsPerECDSA * values[i].Index].felt)
              /\ values[i].Msg = Hex(segment[cellsPerECDSA * values[i].Index + 1].felt)

\* a felt that is a scalar Signature.SetBytes accepts
CanonicalScalar(v) == v \in 1..(Order - 1)

\* C12: an AddSignature whose r or s is not a canonical scalar returns the
\* encoding error from the call itself and leaves the registry as it was;
\* no CheckWrite ever reports an encoding error later.
C12_BadScalarFailsAtOnce ==
    [][/\ (call'.op = "AddSignature"
            /\ (~CanonicalScalar(call'.r) \/ ~CanonicalScalar(call'.s)))
           => (/\ result'.err = ErrEncoding
               /\ Signatures' = Signatures
               /\ segment' = segment)
       /\ call'.op = "CheckWrite" => result'.err # ErrEncoding]_vars

\* an s above the order was refused for an address that holds a signature
C12_Witness ==
    /\ LastAdd
    /\ CanonicalScalar(call.r)
    /\ call.s >= Order
    /\ call.offset \in DOMAIN Signatures
    /\ result.err = ErrEncoding

\* C13: when a cell of some registry entry is unknown, the export returns
\* the error of the read that met it, and the records it returns are of
\* entries with both cells known only, fewer than the registry's entries.
C13_UnknownCellIsReadError ==
    (LastExport /\ \E b \in DOMAIN Signatures : ~Complete(b)) =>
        /\ result.err = ErrRead
        /\ result.line \in {187, 191}
        /\ Len(values) < Cardinality(DOMAIN Signatures)
        /\ \A i \in DOMAIN values :
            \E b \in DOMAIN Signatures :
                /\ Complete(b)
                /\ values[i].Index = b \div cellsPerECDSA
                /\ values[i].PubKey = Hex(segment[b].felt)
                /\ values[i].Msg = Hex(segment[b + 1].felt)

\* the export met an entry whose public key is known and whose message is
\* not, after the record of another entry
C13_Witness ==
    /\ LastExport
    /\ result.err = ErrRead
    /\ result.line = 191
    /\ Len(values) = 1
    /\ \E b \in DOMAIN Signatures : Peek(segment, b).known /\ ~Peek(segment, b + 1).known

\* the segment with every cell outside the instance at base unknown
OnlyInstance(base) ==
    [o \in DOMAIN segment |-> IF o \in {base, base + 1} THEN segment[o] ELSE Unknown]

\* C14: the CheckWrite of the write that leaves the instance incomplete
\* returns nil without checking; the CheckWrite on the complete instance
\* returns the same whichever of the two cells was written last; and what
\* it returns is the same with every cell of other instances unknown.
C14_WriteOrderIrrelevant ==
    LastCheckWrite =>
        /\ ~Complete(LastBase) => (result.err = ErrNil /\ result.line = 38)
        /\ Complete(LastBase) =>
              /\ result = CheckWrite(segment, Signatures, LastBase)
              /\ result = CheckWrite(segment, Signatures, LastBase + 1)
        /\ result = CheckWrite(OnlyInstance(LastBase), Signatures, call.offset)

\* the public key was the cell written on a complete instance whose
\* signature verified, with the cell after the instance known
C14_Witness ==
    /\ LastCheckWrite
    /\ call.offset = LastBase
    /\ Complete(LastBase)
    /\ Peek(segment, LastBase + cellsPerECDSA).known
    /\ result.line = 87

\* the error of the first check that fails on the complete instance at
\* base, the checks taken in the order: a y exists for x, the registry has
\* an entry, the entry verifies under one of the y
FirstFailure(base) ==
    IF Candidates(segment[base].felt) = {} THEN ErrInvalidPublicKey
    ELSE IF base \notin DOMAIN Signatures THEN ErrMissingSignature
    ELSE IF \A y \in Candidates(segment[base].felt) : ~VerifiesUnder(base, y)
         THEN ErrInvalidSignature
    ELSE ErrNil

\* C15: the CheckWrite on an instance whose cells hold felts returns the error of the
\* first failing check in the order recovery, on-curve, registry lookup,
\* verification; an x with no y gives the invalid-public-key error
\* without any verification, with or without a registry entry.
C15_FirstFailingCheck ==
    (LastCheckWrite /\ HoldsFelts(LastBase)) =>
        /\ result.err = FirstFailure(LastBase)
        /\ result.err = ErrInvalidPublicKey => (result.line = 54 /\ result.verifies = 0)
        /\ result.err = ErrMissingSignature => (result.line = 66 /\ result.verifies = 0)

\* an x with no y on an instance without a registry entry: the key is
\* reported, not the missing signature
C15_Witness ==
    /\ LastCheckWrite
    /\ Complete(LastBase)
    /\ Candidates(segment[LastBase].felt) = {}
    /\ LastBase \notin DOMAIN Signatures
    /\ result.err = ErrInvalidPublicKey
    /\ result.line = 54

\* C16: no CheckWrite returns the key-not-on-curve error: whenever recoverY
\* succeeds, x with the positive y it returned satisfies the curve
\* equation.
C16_KeyAlwaysOnCurve ==
    LastCheckWrite =>
        /\ result.err # ErrKeyNotOnCurve
        /\ result.line # 60
        /\ (HoldsFelts(LastBase) /\ result.line # 54) =>
              (result.posY * result.posY) % FieldPrime
                  = (segment[LastBase].felt * segment[LastBase].felt * segment[LastBase].felt
                       + Alpha * segment[LastBase].felt + Beta) % FieldPrime

\* a recovered key passed the on-curve check and went on to the registry
\* lookup
C16_Witness ==
    /\ LastCheckWrite
    /\ Complete(LastBase)
    /\ result.line = 66
    /\ result.posY # 0
    /\ result.err = ErrMissingSignature

\* C17: a CheckWrite, whatever it returns, and an export, whether it
\* succeeds or fails, change no registry entry, no cell and not the stop
\* pointer (the cell the VM has just written apart, which a CheckWrite
\* leaves as written).
C17_ChecksAndExportChangeNothing ==
    [][/\ call'.op = "CheckWrite" =>
             /\ Signatures' = Signatures
             /\ stopPointer' = stopPointer
             /\ \A o \in DOMAIN segment :
                   (o # call'.offset \/ segment[o].known) => segment'[o] = segment[o]
             /\ segment'[call'.offset].known
       /\ call'.op = "GetAirPrivateInput" =>
             /\ Signatures' = Signatures
             /\ stopPointer' = stopPointer
             /\ segment' = segment]_vars

\* an export failed on an unreadable cell, with signatures registered and
\* the stop pointer set
C17_Witness ==
    /\ LastExport
    /\ result.err = ErrRead
    /\ result.line = 187
    /\ DOMAIN Signatures # {}
    /\ stopPointer # 0

\* the result res of a CheckWrite on the complete instance at base, whose
\* x is on the curve, is nil exactly when the entry sigs[base] verifies
\* the message under one of the y of x
UsesEntry(seg, sigs, res, base) ==
    (/\ Peek(seg, base).known
     /\ Peek(seg, base + 1).known
     /\ ~Peek(seg, base).isAddress
     /\ ~Peek(seg, base + 1).isAddress
     /\ base \in DOMAIN sigs
     /\ Candidates(seg[base].felt) # {})
        => (res.err = ErrNil <=>
              \E y \in Candidates(seg[base].felt) :
                  Verify([X |-> seg[base].felt, Y |-> y], SigBytes(sigs[base]),
                         Bytes(seg[base + 1].felt)).valid)

\* C18: a successful AddSignature(base, r, s) leaves the registry with
\* (r, s) under base, in place of what was there, and every other entry,
\* every cell and the stop pointer as they were; a CheckWrite decides by
\* the signature registered when it runs.
C18_AddSignatureStoresLatest ==
    [][/\ (call'.op = "AddSignature" /\ result'.err = ErrNil) =>
             /\ DOMAIN Signatures' = DOMAIN Signatures \cup {call'.offset}
             /\ BigFromBytes(Signatures'[call'.offset].R) = call'.r
             /\ BigFromBytes(Signatures'[call'.offset].S) = call'.s
             /\ \A b \in DOMAIN Signatures \ {call'.offset} :
                   Signatures'[b] = Signatures[b]
             /\ segment' = segment
             /\ stopPointer' = stopPointer
       /\ call'.op = "CheckWrite" =>
             UsesEntry(segment', Signatures', result', BaseOf(call'.offset))]_vars

\* a signature was registered over a different one that had verified its
\* instance, with another address registered too
C18_Witness ==
    /\ LastAdd
    /\ result.err = ErrNil
    /\ call.offset \in DOMAIN verified
    /\ verified[call.offset] # Signatures[call.offset]
    /\ BigFromBytes(Signatures[call.offset].R) = call.r
    /\ \E b \in DOMAIN Signatures : b # call.offset

\* the registry with the entry of base alone
EntryOnly(base) ==
    [b \in DOMAIN Signatures \cap {base} |-> Signatures[b]]

\* C19: what a CheckWrite returns is determined by the two cells of its
\* instance and the registry entry of its base: it is what CheckWrite
\* returns with all other cells unknown and all other entries absent,
\* whatever was checked before; so also after an earlier failure, a
\* complete instance whose registered signature verifies is accepted.
C19_OutcomeOfInstanceAlone ==
    LastCheckWrite =>
        /\ result = CheckWrite(OnlyInstance(LastBase), EntryOnly(LastBase), LastBase)
        /\ (/\ failed
            /\ HoldsFelts(LastBase)
            /\ LastBase \in DOMAIN Signatures
            /\ \E y \in Candidates(segment[LastBase].felt) : VerifiesUnder(LastBase, y))
               => result.err = ErrNil

\* the only complete instance failed a CheckWrite before, and now passes
\* with a signature registered since
C19_Witness ==
    /\ LastCheckWrite
    /\ failed
    /\ result.line = 87
    /\ \A b \in DOMAIN segment :
          (b % cellsPerECDSA = 0 /\ b # LastBase) => ~Complete(b)

\* C20: as long as every CheckWrite of the run has returned nil, every
\* instance with both cells known was checked at line 87 against an entry
\* registered under its base, and that signature verifies the instance's
\* message under one of the two y of its public key.
C20_NoInstanceUnchecked ==
    ~failed =>
        \A b \in DOMAIN segment :
            (b % cellsPerECDSA = 0 /\ Complete(b)) =>
                /\ b \in DOMAIN verified
                /\ \E y \in Candidates(segment[b].felt) :
                      Verify([X |-> segment[b].felt, Y |-> y], SigBytes(verified[b]),
                             Bytes(segment[b + 1].felt)).valid

\* every cell of the segment is known and no CheckWrite has failed
C20_Witness ==
    /\ ~failed
    /\ \A o \in DOMAIN segment : segment[o].known
    /\ Complete(0)
    /\ 0 \in DOMAIN verified

====
